---- MODULE Spec2Model ----
(***************************************************************************)
(* Model of garnish-web-server: the startup compiler (create_runtime and   *)
(* its annotation handlers), the shared state it freezes, and the request  *)
(* handler that dispatches on (METHOD, path), runs a cloned interpreter    *)
(* and deserializes the terminal value.                                    *)
(*                                                                         *)
(* Strings are sequences of one-character strings, so that replace,        *)
(* ends_with, trim_matches and format! are computed as the code computes   *)
(* them.  File paths are sequences of components (std::path::Path).        *)
(***************************************************************************)
EXTENDS Integers, Sequences, FiniteSets, TLC

VARIABLES
    files,          \* the globbed paths with the text the disk holds for each
    mainpc,         \* main: "compile" | "serving" | "failed"
    cpc,            \* create_runtime: "file" | "methods" | "defs" | "exec" | "decode" | "root"
    cur,            \* locals of the current loop iteration of create_runtime
    base_runtime,   \* SimpleGarnishRuntime<SimpleRuntimeData>
    context,        \* WebContext
    route_mapping,  \* HashMap<String, RouteInfo>
    reqs,           \* one handler task per request slot; steps and last record the
                    \* number of execute calls and the outcome of the latest one
    probe           \* input and output of a pure function under test

vars == <<files, mainpc, cpc, cur, base_runtime, context, route_mapping, reqs, probe>>

-----------------------------------------------------------------------------
(* Strings *)

S_garnish == <<".", "g", "a", "r", "n", "i", "s", "h">>
S_html == <<".", "h", "t", "m", "l">>
S_css == <<".", "c", "s", "s">>
S_index == <<"i", "n", "d", "e", "x">>
S_GET == <<"G", "E", "T">>
S_POST == <<"P", "O", "S", "T">>
S_site == <<"s", "i", "t", "e">>
S_other == <<"o", "t", "h", "e", "r">>
S_greet == <<"g", "r", "e", "e", "t">>

Whitespace == {" "}

StartsWith(s, p) == Len(s) >= Len(p) /\ SubSeq(s, 1, Len(p)) = p

EndsWith(s, p) == Len(s) >= Len(p) /\ SubSeq(s, Len(s) - Len(p) + 1, Len(s)) = p

\* str::replace(from, to): every non-overlapping match, left to right
RECURSIVE Replace(_, _, _)
Replace(s, from, to) ==
    IF Len(s) < Len(from) \/ Len(from) = 0 THEN s
    ELSE IF StartsWith(s, from)
         THEN to \o Replace(SubSeq(s, Len(from) + 1, Len(s)), from, to)
         ELSE <<Head(s)>> \o Replace(Tail(s), from, to)

RECURSIVE TrimStartIn(_, _)
TrimStartIn(s, cs) ==
    IF s # <<>> /\ Head(s) \in cs THEN TrimStartIn(Tail(s), cs) ELSE s

RECURSIVE TrimEndIn(_, _)
TrimEndIn(s, cs) ==
    IF s # <<>> /\ s[Len(s)] \in cs THEN TrimEndIn(SubSeq(s, 1, Len(s) - 1), cs) ELSE s

\* str::trim
Trim(s) == TrimEndIn(TrimStartIn(s, Whitespace), Whitespace)

\* str::trim_matches(c)
TrimMatches(s, c) == TrimEndIn(TrimStartIn(s, {c}), {c})

\* [..].join(sep)
RECURSIVE Join(_, _)
Join(parts, sep) ==
    IF parts = <<>> THEN <<>>
    ELSE IF Len(parts) = 1 THEN parts[1]
    ELSE parts[1] \o sep \o Join(Tail(parts), sep)

\* FormatAt with the route before the name
FormatAtRouteFirst(a, b) == b \o <<"@">> \o a

\* format!("{}@{}", a, b)
FormatAt(a, b) == a \o <<"@">> \o b

-----------------------------------------------------------------------------
(* RouteKey: the head of the for loop of create_runtime *)

\* Path::strip_prefix compares whole components
IsPrefixPath(base, path) ==
    Len(base) <= Len(path) /\ SubSeq(path, 1, Len(base)) = base

StripPrefix(path, base) == SubSeq(path, Len(base) + 1, Len(path))

\* Path::to_string_lossy of a relative path
ToStringLossy(path) == Join(path, <<"/">>)

RouteKey(base_path, path) ==
    IF ~IsPrefixPath(base_path, path)
    THEN [ok |-> FALSE, route |-> <<>>, file_type |-> "HTML"]
    ELSE LET s == Replace(ToStringLossy(StripPrefix(path, base_path)), S_garnish, <<>>)
         IN  IF EndsWith(s, S_html)
             THEN [ok |-> TRUE, route |-> Replace(s, S_html, <<>>), file_type |-> "HTML"]
             ELSE IF EndsWith(s, S_css)
             THEN [ok |-> TRUE, route |-> Replace(s, S_css, <<>>), file_type |-> "CSS"]
             ELSE [ok |-> TRUE, route |-> s, file_type |-> "HTML"]

-----------------------------------------------------------------------------
(* Dispatcher keys: the head of handler *)

\* PageOf that strips the leading slashes only
PageOfLeadingOnly(path) == TrimStartIn(path, {"/"})

\* request.uri().path().trim().trim_matches('/').trim()
PageOf(path) == Trim(TrimMatches(Trim(path), "/"))

PageIndex(page) ==
    IF page = <<>> THEN S_index ELSE Join(<<page, S_index>>, <<"/">>)

\* Options with the unqualified keys tried before the method-qualified ones
OptionsUnqualifiedFirst(method, path) ==
    LET page == PageOf(path)
        page_index == PageIndex(page)
    IN  <<page, page_index, FormatAt(method, page), FormatAt(method, page_index)>>

\* Options with each index key tried before its exact-path key
OptionsIndexFirst(method, path) ==
    LET page == PageOf(path)
        page_index == PageIndex(page)
    IN  <<FormatAt(method, page_index), FormatAt(method, page), page_index, page>>

Options(method, path) ==
    LET page == PageOf(path)
        page_index == PageIndex(page)
        page_method == FormatAt(method, page)
        page_index_method == FormatAt(method, page_index)
    IN  <<page_method, page_index_method, page, page_index>>

\* FindOption without the index fallbacks
FindOptionExactOnly(options, keys) ==
    IF options[1] \in keys THEN 1 ELSE IF options[3] \in keys THEN 3 ELSE 0

\* options.iter().find(|o| route_mapping.contains_key(o)): 0 when there is none
FindOption(options, keys) ==
    IF \E i \in 1..Len(options) : options[i] \in keys
    THEN CHOOSE i \in 1..Len(options) :
            /\ options[i] \in keys
            /\ \A j \in 1..(i - 1) : options[j] \notin keys
    ELSE 0

-----------------------------------------------------------------------------
(* The interpreter (garnish_lang_runtime, garnish_lang_simple_data) as this   *)
(* program drives it.  A program counter is the 0-based offset of an          *)
(* instruction; a jump-table index is the 0-based offset of a jump-table      *)
(* entry; a value reference is the position of a value in the data list.      *)

\* symbol ids are hashes of the symbol's text
SymbolNames == <<S_GET, S_POST, S_greet, <<"a">>, <<"n", "o", "n", "e">>>>

SymbolId(name) == CHOOSE i \in 1..Len(SymbolNames) : SymbolNames[i] = name

Value(type, str, num, items) == [type |-> type, str |-> str, num |-> num, items |-> items]

Instr(op, arg) == [op |-> op, arg |-> arg]

\* SimpleGarnishRuntime::new(SimpleRuntimeData::new())
NewRuntime ==
    [instructions |-> <<>>, jump_table |-> <<>>, cursor |-> 0, current |-> 0,
     data |-> <<>>, registers |-> <<>>, symbols |-> <<>>, state |-> "Running"]

\* get_jump_table_len
GetJumpTableLen(rt) == Len(rt.jump_table)

\* get_jump_point(index): Some(pc) or None
HasJumpPoint(rt, index) == index + 1 \in DOMAIN rt.jump_table

GetJumpPoint(rt, index) == rt.jump_table[index + 1]

\* set_instruction_cursor(pc) fails outside the instruction stream
CanSetInstructionCursor(rt, pc) == pc < Len(rt.instructions)

SetInstructionCursor(rt, pc) == [rt EXCEPT !.cursor = pc, !.state = "Running"]

AddSymbol(symbols, name) ==
    IF \E i \in 1..Len(symbols) : symbols[i] = <<SymbolId(name), name>>
    THEN symbols
    ELSE Append(symbols, <<SymbolId(name), name>>)

\* get_symbols().get(&id)
HasSymbol(rt, id) == \E i \in 1..Len(rt.symbols) : rt.symbols[i][1] = id

GetSymbol(rt, id) ==
    rt.symbols[CHOOSE i \in 1..Len(rt.symbols) : rt.symbols[i][1] = id][2]

\* What build_with_data appends for a page expression (a root, or the
\* expression an annotation refers to): an optional symbol reference, an
\* optional instruction that fails, then the page's value.
PageInstructions(code, addr) ==
    (IF code.sym # <<>> THEN <<Instr("Resolve", SymbolId(code.sym))>> ELSE <<>>)
    \o (IF code.fail THEN <<Instr("Invalid", 0)>> ELSE <<>>)
    \o <<Instr("Put", addr), Instr("EndExpression", 0)>>

BuildPage(rt, code) ==
    LET addr == Len(rt.data) + 1
    IN  [rt EXCEPT
            !.data = Append(@, Value(code.shape, code.text, 0, <<>>)),
            !.symbols = IF code.sym # <<>> THEN AddSymbol(@, code.sym) ELSE @,
            !.jump_table = Append(@, Len(rt.instructions)),
            !.instructions = @ \o PageInstructions(code, addr)]

\* The value one item of an annotation's list is built as.  An Expression
\* item holds the jump-table index `index + off`.
ItemValue(item, index) ==
    CASE item.type = "Symbol" -> Value("Symbol", <<>>, SymbolId(item.name), <<>>)
      [] item.type = "CharList" -> Value("CharList", item.name, 0, <<>>)
      [] item.type = "Expression" -> Value("Expression", <<>>, index + item.off, <<>>)
      [] OTHER -> Value("Number", <<>>, item.off, <<>>)

RECURSIVE ItemSymbols(_, _)
ItemSymbols(symbols, items) ==
    IF items = <<>> THEN symbols
    ELSE ItemSymbols(IF Head(items).type = "Symbol"
                     THEN AddSymbol(symbols, Head(items).name) ELSE symbols,
                     Tail(items))

\* What build_with_data appends for an annotation's tokens: the annotation
\* expression itself at jump-table index `index` (its value is the list of the
\* items, or a plain number), and the nested expression at `index + 1`.
AnnInstructions(code, listAddr) ==
    (IF code.pre = "stuck" THEN <<Instr("Invalid", 0)>>
     ELSE IF code.pre = "hiccup"
     THEN <<Instr("Resolve", SymbolId(S_greet)), Instr("Invalid", 1)>> ELSE <<>>)
    \o <<Instr("Put", listAddr), Instr("EndExpression", 0)>>

BuildAnnotation(rt, code) ==
    LET index == Len(rt.jump_table)
        n == Len(code.items)
        first == Len(rt.data)
        itemValues == [i \in 1..n |-> ItemValue(code.items[i], index)]
        listValue == IF code.list
                     THEN Value("List", <<>>, 0, [i \in 1..n |-> first + i])
                     ELSE Value("Number", <<>>, 0, <<>>)
        listAddr == first + n + 1
        annInstrs == AnnInstructions(code, listAddr)
        withAnn == [rt EXCEPT
                        !.data = (@ \o itemValues) \o <<listValue>>,
                        !.symbols = ItemSymbols(@, code.items),
                        !.jump_table = Append(@, Len(rt.instructions)),
                        !.instructions = @ \o annInstrs]
    IN  BuildPage(withAnn, code.body)

\* get_data_type, get_list_item, get_symbol, get_expression, as_char_list
HasValue(rt, ref) == ref \in DOMAIN rt.data

GetDataType(rt, ref) == rt.data[ref].type

HasListItem(rt, ref, i) == i + 1 \in DOMAIN rt.data[ref].items

GetListItem(rt, ref, i) == rt.data[ref].items[i + 1]

-----------------------------------------------------------------------------
(* WebContext *)

NewContext == [expression_map |-> <<>>, build_metadata |-> <<>>]

\* MapInsert that keeps the value of a key that is already there
MapInsertKeepsFirst(map, key, value) == map @@ (key :> value)

\* HashMap::insert: last writer wins
MapInsert(map, key, value) == (key :> value) @@ map

insert_expression(ctx, name, table_index) ==
    [ctx EXCEPT !.expression_map = MapInsert(@, name, table_index)]

\* resolve that allocates the expression value and pushes no register
resolveWithoutPush(ctx, symbol, rt) ==
    IF ~HasSymbol(rt, symbol) THEN [resolved |-> FALSE, rt |-> rt]
    ELSE LET s == GetSymbol(rt, symbol)
         IN  IF s \notin DOMAIN ctx.expression_map THEN [resolved |-> FALSE, rt |-> rt]
             ELSE [resolved |-> TRUE,
                   rt |-> [rt EXCEPT !.data =
                             Append(@, Value("Expression", <<>>, ctx.expression_map[s], <<>>))]]

\* WebContext::resolve: the data after the call, and the bool it returns
resolve(ctx, symbol, rt) ==
    IF ~HasSymbol(rt, symbol) THEN [resolved |-> FALSE, rt |-> rt]
    ELSE LET s == GetSymbol(rt, symbol)
         IN  IF s \notin DOMAIN ctx.expression_map THEN [resolved |-> FALSE, rt |-> rt]
             ELSE LET withExpr == [rt EXCEPT !.data =
                                     Append(@, Value("Expression", <<>>, ctx.expression_map[s], <<>>))]
                  IN  [resolved |-> TRUE,
                       rt |-> [withExpr EXCEPT !.registers = Append(@, Len(withExpr.data))]]

\* execute_current_instruction(context): ok = FALSE is Err(e); on Ok the
\* interpreter's state is Running or End.  with_context is Some(&mut context).
ExecuteCurrentInstruction(rt, ctx, with_context) ==
    IF rt.cursor >= Len(rt.instructions) THEN [ok |-> FALSE, rt |-> rt]
    ELSE LET ins == rt.instructions[rt.cursor + 1]
         IN  CASE ins.op = "Put" ->
                    [ok |-> TRUE,
                     rt |-> [rt EXCEPT !.current = ins.arg, !.cursor = @ + 1, !.state = "Running"]]
               [] ins.op = "Resolve" ->
                    LET after == IF with_context THEN resolve(ctx, ins.arg, rt).rt ELSE rt
                    IN  [ok |-> TRUE,
                         rt |-> [after EXCEPT !.cursor = @ + 1, !.state = "Running"]]
               [] ins.op = "EndExpression" ->
                    [ok |-> TRUE, rt |-> [rt EXCEPT !.state = "End"]]
               [] OTHER ->
                    [ok |-> FALSE, rt |-> [rt EXCEPT !.cursor = @ + ins.arg]]

-----------------------------------------------------------------------------
(* The compiler: create_runtime, handle_method_annotations,                  *)
(* handle_def_annotations, build_and_get_parameters                          *)

BasePath == <<S_site>>

RouteInfo(route, file_type, execution_start) ==
    [route |-> route, file_type |-> file_type, execution_start |-> execution_start]

BuildMetadata(name, execution_start) == [name |-> name, execution_start |-> execution_start]

NewCur ==
    [idx |-> 1, route |-> <<>>, file_type |-> "HTML", method_blocks |-> <<>>,
     def_blocks |-> <<>>, builds |-> <<>>, kind |-> "none", index |-> 0]

\* DecodeName that takes a value of any other type for the empty name
DecodeNameLenient(rt, v) ==
    CASE GetDataType(rt, v) = "Symbol" ->
            IF HasSymbol(rt, rt.data[v].num)
            THEN [ok |-> TRUE, name |-> GetSymbol(rt, rt.data[v].num)]
            ELSE [ok |-> FALSE, name |-> <<>>]
      [] GetDataType(rt, v) = "CharList" -> [ok |-> TRUE, name |-> rt.data[v].str]
      [] OTHER -> [ok |-> TRUE, name |-> <<>>]

\* get_name_expression_annotation_parameters, the match on item 0
DecodeName(rt, v) ==
    CASE GetDataType(rt, v) = "Symbol" ->
            IF HasSymbol(rt, rt.data[v].num)
            THEN [ok |-> TRUE, name |-> GetSymbol(rt, rt.data[v].num)]
            ELSE [ok |-> FALSE, name |-> <<>>]
      [] GetDataType(rt, v) = "CharList" -> [ok |-> TRUE, name |-> rt.data[v].str]
      [] OTHER -> [ok |-> FALSE, name |-> <<>>]

get_name_expression_annotation_parameters(rt, value_ref) ==
    LET Fail == [ok |-> FALSE, name |-> <<>>, start |-> 0]
    IN  IF ~HasValue(rt, value_ref) THEN Fail
        ELSE IF GetDataType(rt, value_ref) # "List" THEN Fail
        ELSE IF ~HasListItem(rt, value_ref, 0) THEN Fail
        ELSE LET method_name == DecodeName(rt, GetListItem(rt, value_ref, 0))
             IN  IF ~method_name.ok THEN Fail
                 ELSE IF ~HasListItem(rt, value_ref, 1) THEN Fail
                 ELSE LET v == GetListItem(rt, value_ref, 1)
                      IN  IF GetDataType(rt, v) # "Expression" THEN Fail
                          ELSE [ok |-> TRUE, name |-> method_name.name,
                                start |-> rt.data[v].num]

\* build_and_get_parameters up to its execution loop: parse, build, look the
\* jump point up and seed the cursor.  ok = FALSE is the Err the caller skips
\* the block on.
AnnotationBegin(rt, block) ==
    IF block.parse # "ok" THEN [ok |-> FALSE, rt |-> rt]
    ELSE IF ~block.build THEN [ok |-> FALSE, rt |-> rt]
    ELSE LET index == GetJumpTableLen(rt)
             built == BuildAnnotation(rt, block)
         IN  IF ~HasJumpPoint(built, index) THEN [ok |-> FALSE, rt |-> built]
             ELSE IF ~CanSetInstructionCursor(built, GetJumpPoint(built, index))
                  THEN [ok |-> FALSE, rt |-> built]
                  ELSE [ok |-> TRUE,
                        rt |-> SetInstructionCursor(built, GetJumpPoint(built, index))]

\* build_and_get_parameters after its loop: the current value, decoded
AnnotationParameters(rt) ==
    IF rt.current = 0 THEN [ok |-> FALSE, name |-> <<>>, start |-> 0]
    ELSE get_name_expression_annotation_parameters(rt, rt.current)

Fatal ==
    /\ mainpc' = "failed"
    /\ UNCHANGED <<files, cpc, cur, base_runtime, context, route_mapping, reqs, probe>>

\* create_runtime, top of `for path in paths`: RouteKey, read_to_string,
\* collect_tokens_from_input and the two partitions
StartFile ==
    /\ mainpc = "compile" /\ cpc = "file" /\ cur.idx <= Len(files)
    /\ LET f == files[cur.idx]
           key == RouteKey(BasePath, f.path)
       IN  IF ~key.ok \/ ~f.content.readable \/ ~f.content.lex
           THEN Fatal
           ELSE /\ cur' = [cur EXCEPT !.route = key.route, !.file_type = key.file_type,
                                      !.method_blocks = f.content.methods,
                                      !.def_blocks = f.content.defs,
                                      !.builds = <<>>]
                /\ cpc' = "methods"
                /\ UNCHANGED <<files, mainpc, base_runtime, context, route_mapping, reqs, probe>>

\* handle_method_annotations, top of `for method in blocks`
HandleMethodBlock ==
    /\ mainpc = "compile" /\ cpc = "methods" /\ cur.method_blocks # <<>>
    /\ LET begun == AnnotationBegin(base_runtime, Head(cur.method_blocks))
       IN  /\ base_runtime' = begun.rt
           /\ IF begun.ok
              THEN /\ cpc' = "exec"
                   /\ cur' = [cur EXCEPT !.kind = "method"]
              ELSE /\ cpc' = "methods"
                   /\ cur' = [cur EXCEPT !.method_blocks = Tail(@)]
    /\ UNCHANGED <<files, mainpc, context, route_mapping, reqs, probe>>

\* handle_def_annotations, top of `for def in blocks`
HandleDefBlock ==
    /\ mainpc = "compile" /\ cpc = "defs" /\ cur.def_blocks # <<>>
    /\ LET begun == AnnotationBegin(base_runtime, Head(cur.def_blocks))
       IN  /\ base_runtime' = begun.rt
           /\ IF begun.ok
              THEN /\ cpc' = "exec"
                   /\ cur' = [cur EXCEPT !.kind = "def"]
              ELSE /\ cpc' = "defs"
                   /\ cur' = [cur EXCEPT !.def_blocks = Tail(@)]
    /\ UNCHANGED <<files, mainpc, context, route_mapping, reqs, probe>>

\* AnnotationExecute that leaves its loop on an Err, as the handler's loop does
AnnotationExecuteBreaks ==
    /\ mainpc = "compile" /\ cpc = "exec"
    /\ LET step == ExecuteCurrentInstruction(base_runtime, NewContext, FALSE)
       IN  /\ base_runtime' = step.rt
           /\ cpc' = IF ~step.ok \/ step.rt.state = "End" THEN "decode" ELSE "exec"
    /\ UNCHANGED <<files, mainpc, cur, context, route_mapping, reqs, probe>>

\* build_and_get_parameters, one turn of its loop: an Err is logged and the
\* loop continues, Running continues, End breaks
AnnotationExecute ==
    /\ mainpc = "compile" /\ cpc = "exec"
    /\ LET step == ExecuteCurrentInstruction(base_runtime, NewContext, FALSE)
       IN  /\ base_runtime' = step.rt
           /\ cpc' = IF step.ok /\ step.rt.state = "End" THEN "decode" ELSE "exec"
    /\ UNCHANGED <<files, mainpc, cur, context, route_mapping, reqs, probe>>

\* MethodRouteInfo with the decoded jump-table index used as the program counter
MethodRouteInfoRawIndex(rt, route, file_type, jump_index) ==
    RouteInfo(route, file_type, jump_index)

\* handle_method_annotations: the RouteInfo of a method route holds the jump
\* point the decoded jump-table index refers to
MethodRouteInfo(rt, route, file_type, jump_index) ==
    RouteInfo(route, file_type, GetJumpPoint(rt, jump_index))

\* handle_method_annotations, the rest of the loop body after
\* build_and_get_parameters returned
MethodRegister ==
    /\ mainpc = "compile" /\ cpc = "decode" /\ cur.kind = "method"
    /\ LET params == AnnotationParameters(base_runtime)
           jump_index == params.start
       IN  IF ~params.ok
           THEN /\ cpc' = "methods"
                /\ cur' = [cur EXCEPT !.method_blocks = Tail(@), !.kind = "none"]
                /\ UNCHANGED <<files, mainpc, base_runtime, context, route_mapping, reqs, probe>>
           ELSE IF ~HasJumpPoint(base_runtime, jump_index)
           THEN Fatal
           ELSE LET start == GetJumpPoint(base_runtime, jump_index)
                    route == FormatAt(params.name, cur.route)
                IN  /\ cur' = [cur EXCEPT
                                 !.builds = Append(@, BuildMetadata(
                                               <<files[cur.idx].path, params.name>>, start)),
                                 !.method_blocks = Tail(@), !.kind = "none"]
                    /\ route_mapping' = MapInsert(route_mapping, route,
                                MethodRouteInfo(base_runtime, route, cur.file_type, jump_index))
                    /\ context' = insert_expression(context, route, jump_index)
                    /\ cpc' = "methods"
                    /\ UNCHANGED <<files, mainpc, base_runtime, reqs, probe>>

\* handle_def_annotations, the rest of the loop body
DefRegister ==
    /\ mainpc = "compile" /\ cpc = "decode" /\ cur.kind = "def"
    /\ LET params == AnnotationParameters(base_runtime)
       IN  IF ~params.ok
           THEN /\ cur' = [cur EXCEPT !.def_blocks = Tail(@), !.kind = "none"]
                /\ UNCHANGED context
           ELSE /\ cur' = [cur EXCEPT
                             !.builds = Append(@, BuildMetadata(
                                           <<files[cur.idx].path, params.name>>, params.start)),
                             !.def_blocks = Tail(@), !.kind = "none"]
                /\ context' = insert_expression(context, params.name, params.start)
    /\ cpc' = "defs"
    /\ UNCHANGED <<files, mainpc, base_runtime, route_mapping, reqs, probe>>

\* handle_method_annotations returns Ok(builds); create_runtime appends them
MethodsDone ==
    /\ mainpc = "compile" /\ cpc = "methods" /\ cur.method_blocks = <<>>
    /\ context' = [context EXCEPT !.build_metadata = @ \o cur.builds]
    /\ cur' = [cur EXCEPT !.builds = <<>>]
    /\ cpc' = "defs"
    /\ UNCHANGED <<files, mainpc, base_runtime, route_mapping, reqs, probe>>

\* DefsDone that puts the def entries in front of the metadata
DefsDonePrepends ==
    /\ mainpc = "compile" /\ cpc = "defs" /\ cur.def_blocks = <<>>
    /\ context' = [context EXCEPT !.build_metadata = cur.builds \o @]
    /\ cur' = [cur EXCEPT !.builds = <<>>]
    /\ cpc' = "root"
    /\ UNCHANGED <<files, mainpc, base_runtime, route_mapping, reqs, probe>>

\* handle_def_annotations returns Ok(builds); create_runtime appends them
DefsDone ==
    /\ mainpc = "compile" /\ cpc = "defs" /\ cur.def_blocks = <<>>
    /\ context' = [context EXCEPT !.build_metadata = @ \o cur.builds]
    /\ cur' = [cur EXCEPT !.builds = <<>>]
    /\ cpc' = "root"
    /\ UNCHANGED <<files, mainpc, base_runtime, route_mapping, reqs, probe>>

\* RootIsEmpty that never holds: an empty root is built and registered
RootIsEmptyNever(root) == FALSE

\* parsed.get_nodes().is_empty()
RootIsEmpty(root) == root.parse = "empty"

\* create_runtime, the root of the file: parse, build, register
CompileRoot ==
    /\ mainpc = "compile" /\ cpc = "root"
    /\ LET root == files[cur.idx].content.root
           route == cur.route
           index == GetJumpTableLen(base_runtime)
           built == BuildPage(base_runtime, root.body)
       IN  IF root.parse = "err" THEN Fatal
           ELSE IF RootIsEmpty(root)
           THEN /\ cur' = [cur EXCEPT !.idx = @ + 1]
                /\ cpc' = "file"
                /\ UNCHANGED <<files, mainpc, base_runtime, context, route_mapping, reqs, probe>>
           ELSE IF ~root.build THEN Fatal
           ELSE IF ~HasJumpPoint(built, index) THEN Fatal
           ELSE LET execution_start == GetJumpPoint(built, index)
                    withMeta == [context EXCEPT !.build_metadata =
                                    Append(@, BuildMetadata(<<files[cur.idx].path>>,
                                                            execution_start))]
                IN  /\ base_runtime' = built
                    /\ route_mapping' = MapInsert(route_mapping, route,
                                            RouteInfo(route, cur.file_type, execution_start))
                    /\ context' = insert_expression(withMeta, route, index)
                    /\ cur' = [cur EXCEPT !.idx = @ + 1]
                    /\ cpc' = "file"
                    /\ UNCHANGED <<files, mainpc, reqs, probe>>

\* Serve as soon as the compiler is between two files, whether or not files
\* are left to compile
ServeEarly ==
    /\ mainpc = "compile" /\ cpc = "file"
    /\ mainpc' = "serving"
    /\ UNCHANGED <<files, cpc, cur, base_runtime, context, route_mapping, reqs, probe>>

\* create_runtime returns Ok and main (Serve) freezes the triple into
\* SharedState and binds the listener
Serve ==
    /\ mainpc = "compile" /\ cpc = "file" /\ cur.idx > Len(files)
    /\ mainpc' = "serving"
    /\ UNCHANGED <<files, cpc, cur, base_runtime, context, route_mapping, reqs, probe>>

-----------------------------------------------------------------------------
(* The request handler *)

MaxReq == 2

Slots == 1..MaxReq

Methods == {S_GET, S_POST}

\* the last path names a method-qualified key: "/POST@a"
RequestPaths ==
    {<<"/">>, <<"/", "a">>, <<"/", "a", "/">>, <<"/", "b">>,
     <<"/">> \o FormatAt(S_POST, <<"a">>)}

IdleReq ==
    [pc |-> "idle", method |-> <<>>, path |-> <<>>, runtime |-> NewRuntime,
     context |-> NewContext, key |-> <<>>, status |-> 0, headers |-> <<>>,
     body |-> <<>>, steps |-> 0, last |-> "none"]

\* T::deserialize(&mut GarnishDataDeserializer::new(data)) is Ok: the current
\* value has the shape of a T (Node or RuleSet)
DeserializeOk(rt, T) == rt.current \in DOMAIN rt.data /\ rt.data[rt.current].type = T

\* deserialize_current_value::<T>: the Err arm yields String::new()
deserialize_current_value(rt, T) ==
    IF DeserializeOk(rt, T) THEN rt.data[rt.current].str ELSE <<>>

\* current_value_to_string that deserializes a Node whatever the file type
current_value_to_string_node(rt, file_type) == deserialize_current_value(rt, "Node")

current_value_to_string(rt, file_type) ==
    IF file_type = "HTML"
    THEN deserialize_current_value(rt, "Node")
    ELSE deserialize_current_value(rt, "RuleSet")

\* Response::builder().status(..).body(..)
Respond(req, status, body) == [req EXCEPT !.pc = "done", !.status = status, !.body = body]

\* handler, up to its loop: clone the runtime and the context, derive the
\* options, find the route, seed the cursor
Handler(r) ==
    /\ mainpc = "serving" /\ reqs[r].pc = "idle"
    /\ \E method \in Methods, path \in RequestPaths :
        LET runtime == base_runtime
            ctx == context
            options == Options(method, path)
            found == FindOption(options, DOMAIN route_mapping)
            req == [reqs[r] EXCEPT !.method = method, !.path = path]
        IN  IF found = 0
            THEN reqs' = [reqs EXCEPT ![r] = Respond(req, 404, <<>>)]
            ELSE LET info == route_mapping[options[found]]
                     started == [req EXCEPT !.key = options[found]]
                 IN  IF ~CanSetInstructionCursor(runtime, info.execution_start)
                     THEN reqs' = [reqs EXCEPT ![r] = Respond(started, 500, <<>>)]
                     ELSE reqs' = [reqs EXCEPT ![r] =
                            [started EXCEPT
                                !.pc = "loop",
                                !.runtime = SetInstructionCursor(runtime, info.execution_start),
                                !.context = ctx]]
    /\ UNCHANGED <<files, mainpc, cpc, cur, base_runtime, context, route_mapping, probe>>

\* HandlerExecute on the shared runtime instead of the request's clone
HandlerExecuteShared(r) ==
    /\ mainpc = "serving" /\ reqs[r].pc = "loop"
    /\ LET req == reqs[r]
           step == ExecuteCurrentInstruction(req.runtime, req.context, TRUE)
           stepped == [req EXCEPT !.runtime = step.rt, !.steps = @ + 1,
                                  !.last = IF step.ok THEN step.rt.state ELSE "Err"]
       IN  /\ base_runtime' = step.rt
           /\ IF ~step.ok
              THEN reqs' = [reqs EXCEPT ![r] = Respond(stepped, 500, <<>>)]
              ELSE IF step.rt.state = "End"
              THEN reqs' = [reqs EXCEPT ![r] = [stepped EXCEPT !.pc = "respond"]]
              ELSE reqs' = [reqs EXCEPT ![r] = stepped]
    /\ UNCHANGED <<files, mainpc, cpc, cur, context, route_mapping, probe>>

\* HandlerExecute that logs an Err and continues, as the annotation loop does
HandlerExecuteContinues(r) ==
    /\ mainpc = "serving" /\ reqs[r].pc = "loop"
    /\ LET req == reqs[r]
           step == ExecuteCurrentInstruction(req.runtime, req.context, TRUE)
           stepped == [req EXCEPT !.runtime = step.rt, !.steps = @ + 1,
                                  !.last = IF step.ok THEN step.rt.state ELSE "Err"]
       IN  IF step.ok /\ step.rt.state = "End"
           THEN reqs' = [reqs EXCEPT ![r] = [stepped EXCEPT !.pc = "respond"]]
           ELSE reqs' = [reqs EXCEPT ![r] = stepped]
    /\ UNCHANGED <<files, mainpc, cpc, cur, base_runtime, context, route_mapping, probe>>

\* handler, one turn of its loop
HandlerExecute(r) ==
    /\ mainpc = "serving" /\ reqs[r].pc = "loop"
    /\ LET req == reqs[r]
           step == ExecuteCurrentInstruction(req.runtime, req.context, TRUE)
           stepped == [req EXCEPT !.runtime = step.rt, !.steps = @ + 1,
                                  !.last = IF step.ok THEN step.rt.state ELSE "Err"]
       IN  IF ~step.ok
           THEN reqs' = [reqs EXCEPT ![r] = Respond(stepped, 500, <<>>)]
           ELSE IF step.rt.state = "End"
           THEN reqs' = [reqs EXCEPT ![r] = [stepped EXCEPT !.pc = "respond"]]
           ELSE reqs' = [reqs EXCEPT ![r] = stepped]
    /\ UNCHANGED <<files, mainpc, cpc, cur, base_runtime, context, route_mapping, probe>>

\* .header("Content-Type", "text/html")
ContentTypeHtml == [h \in {"Content-Type"} |-> "text/html"]

\* handler, after its loop: the response with the deserialized current value
HandlerRespond(r) ==
    /\ mainpc = "serving" /\ reqs[r].pc = "respond"
    /\ LET req == reqs[r]
           info == route_mapping[req.key]
           body == current_value_to_string(req.runtime, info.file_type)
       IN  reqs' = [reqs EXCEPT ![r] =
                [Respond(req, 200, body) EXCEPT !.headers = ContentTypeHtml]]
    /\ UNCHANGED <<files, mainpc, cpc, cur, base_runtime, context, route_mapping, probe>>

-----------------------------------------------------------------------------
(* The files on disk: what the lexer, the parser and the builder make of them *)

Page(shape, text, sym, fail) == [shape |-> shape, text |-> text, sym |-> sym, fail |-> fail]

Item(type, name, off) == [type |-> type, name |-> name, off |-> off]

Block(parse, build, pre, list, items, body) ==
    [parse |-> parse, build |-> build, pre |-> pre, list |-> list, items |-> items, body |-> body]

Root(parse, build, body) == [parse |-> parse, build |-> build, body |-> body]

Content(readable, lex, methods, defs, root) ==
    [readable |-> readable, lex |-> lex, methods |-> methods, defs |-> defs, root |-> root]

File(path, content) == [path |-> path, content |-> content]

T_hi == <<"h", "i">>
T_posted == <<"p", "o", "s", "t", "e", "d">>
T_hello == <<"h", "e", "l", "l", "o">>
T_rule == <<"r", "u", "l", "e">>

PageHi == Page("Node", T_hi, <<>>, FALSE)
PagePosted == Page("Node", T_posted, <<>>, FALSE)
PageHello == Page("Node", T_hello, <<>>, FALSE)
PageRule == Page("RuleSet", T_rule, <<>>, FALSE)
PageGreets == Page("Node", T_hi, S_greet, FALSE)
PageFails == Page("Node", T_hi, S_greet, TRUE)

\* the expression index an annotation's list refers to when it refers to no
\* jump-table entry
Dangling == 7

MethodPost ==
    Block("ok", TRUE, "none", TRUE,
          <<Item("Symbol", S_POST, 0), Item("Expression", <<>>, 1)>>, PagePosted)
MethodGetHiccup ==
    Block("ok", TRUE, "hiccup", TRUE,
          <<Item("CharList", S_GET, 0), Item("Expression", <<>>, 1)>>, PageRule)
MethodDangling ==
    Block("ok", TRUE, "none", TRUE,
          <<Item("Symbol", S_POST, 0), Item("Expression", <<>>, Dangling)>>, PagePosted)
MethodNumber ==
    Block("ok", TRUE, "none", FALSE, <<>>, PagePosted)
MethodEmpty ==
    Block("empty", TRUE, "none", FALSE, <<>>, PagePosted)

DefGreet ==
    Block("ok", TRUE, "none", TRUE,
          <<Item("CharList", S_greet, 0), Item("Expression", <<>>, 1)>>, PageHello)
DefDangling ==
    Block("ok", TRUE, "none", TRUE,
          <<Item("Symbol", S_greet, 0), Item("Expression", <<>>, Dangling)>>, PageHello)
DefBadName ==
    Block("ok", TRUE, "none", TRUE,
          <<Item("Number", <<>>, 0), Item("Expression", <<>>, 1)>>, PageHello)
DefParseError ==
    Block("err", TRUE, "none", FALSE, <<>>, PageHello)

\* an annotation whose list has a third item
DefTriple ==
    Block("ok", TRUE, "none", TRUE,
          <<Item("CharList", S_greet, 0), Item("Expression", <<>>, 1),
            Item("Number", <<>>, 0)>>, PageHello)

\* an @Def whose name is the route of a.html.garnish
DefRouteName ==
    Block("ok", TRUE, "none", TRUE,
          <<Item("CharList", <<"a">>, 0), Item("Expression", <<>>, 1)>>, PageHello)

MethodStuck ==
    Block("ok", TRUE, "stuck", TRUE,
          <<Item("Symbol", S_POST, 0), Item("Expression", <<>>, 1)>>, PagePosted)

MethodBlocks ==
    {MethodPost, MethodGetHiccup, MethodDangling, MethodNumber, MethodEmpty, MethodStuck}

DefBlocks == {DefGreet, DefDangling, DefBadName, DefParseError, DefTriple}

RootHi == Root("ok", TRUE, PageHi)
RootGreets == Root("ok", TRUE, PageGreets)
RootEmpty == Root("empty", TRUE, PageHi)

Roots == {RootHi, RootGreets, Root("ok", TRUE, PageFails), Root("ok", TRUE, PageRule),
          RootEmpty, Root("err", TRUE, PageHi), Root("ok", FALSE, PageHi)}

Contents ==
    {Content(TRUE, TRUE, <<m>>, <<>>, RootHi) : m \in MethodBlocks}
    \cup {Content(TRUE, TRUE, <<>>, <<d>>, RootGreets) : d \in DefBlocks}
    \cup {Content(TRUE, TRUE, <<>>, <<>>, r) : r \in Roots}
    \cup {Content(TRUE, TRUE, <<MethodPost, MethodGetHiccup>>, <<DefGreet>>, RootGreets),
          Content(TRUE, TRUE, <<MethodPost>>, <<>>, RootEmpty),
          Content(TRUE, TRUE, <<MethodPost>>, <<>>, Root("ok", TRUE, PageFails)),
          Content(FALSE, TRUE, <<>>, <<>>, RootHi),
          Content(TRUE, FALSE, <<>>, <<>>, RootHi)}

F_a_html == <<S_site, <<"a">> \o S_html \o S_garnish>>
F_a_css == <<S_site, <<"a">> \o S_css \o S_garnish>>
F_index == <<S_site, S_index \o S_garnish>>
F_outside == <<S_other, <<"b">> \o S_garnish>>

FilePaths == {F_a_html, F_a_css, F_index, F_outside}

MaxFiles == 2

SeqsUpTo(S, n) == UNION {[1..k -> S] : k \in 0..n}

\* directories in which an @Def is named like the route of another file, or
\* of its own file
NameClashFileLists ==
    {<<File(F_a_html, Content(TRUE, TRUE, <<>>, <<>>, RootHi)),
       File(F_index, Content(TRUE, TRUE, <<>>, <<DefRouteName>>, RootHi))>>,
     <<File(F_a_html, Content(TRUE, TRUE, <<>>, <<DefRouteName>>, RootHi))>>}

\* glob yields each path once
FileLists ==
    {fs \in SeqsUpTo([path : FilePaths, content : Contents], MaxFiles) :
        \A i, j \in 1..Len(fs) : i # j => fs[i].path # fs[j].path}
    \cup NameClashFileLists

\* the directories the server is started on when requests are followed too
ServedFileLists ==
    {<<f>> : f \in [path : FilePaths, content : Contents]}
    \cup {<<>>,
          <<File(F_a_html, Content(TRUE, TRUE, <<MethodPost>>, <<>>, RootHi)),
            File(F_a_css, Content(TRUE, TRUE, <<>>, <<>>, Root("ok", TRUE, PageRule)))>>,
          <<File(F_index, Content(TRUE, TRUE, <<>>, <<>>, RootHi)),
            File(F_a_html, Content(TRUE, TRUE, <<>>, <<DefGreet>>, RootGreets))>>}

-----------------------------------------------------------------------------

InitCompile ==
    /\ files \in FileLists
    /\ mainpc = "compile"
    /\ cpc = "file"
    /\ cur = NewCur
    /\ base_runtime = NewRuntime
    /\ context = NewContext
    /\ route_mapping = <<>>
    /\ reqs = [r \in Slots |-> IdleReq]
    /\ probe = <<>>

Compile ==
    \/ StartFile
    \/ HandleMethodBlock
    \/ HandleDefBlock
    \/ AnnotationExecute
    \/ MethodRegister
    \/ DefRegister
    \/ MethodsDone
    \/ DefsDone
    \/ CompileRoot
    \/ Serve

SpecCompile == InitCompile /\ [][Compile]_vars


Init ==
    /\ files \in ServedFileLists
    /\ mainpc = "compile"
    /\ cpc = "file"
    /\ cur = NewCur
    /\ base_runtime = NewRuntime
    /\ context = NewContext
    /\ route_mapping = <<>>
    /\ reqs = [r \in Slots |-> IdleReq]
    /\ probe = <<>>

Next ==
    \/ Compile
    \/ \E r \in Slots : Handler(r)
    \/ \E r \in Slots : HandlerExecute(r)
    \/ \E r \in Slots : HandlerRespond(r)

Spec == Init /\ [][Next]_vars


-----------------------------------------------------------------------------
(* RouteKey on its own: every path the glob can yield from a few name pieces *)

MaxPieces == 3

NamePieces == {<<"a">>, S_garnish, S_html, S_css}

RECURSIVE Concat(_)
Concat(parts) == IF parts = <<>> THEN <<>> ELSE Head(parts) \o Concat(Tail(parts))

\* the glob pattern is **/*.garnish
ProbeNames ==
    {n \in {Concat(ps) : ps \in SeqsUpTo(NamePieces, MaxPieces)} : EndsWith(n, S_garnish)}

ProbeDirs == {<<"d">>, <<"d">> \o S_css, <<"d">> \o S_garnish, <<"d">> \o S_html}

ProbeFilePaths ==
    {<<S_site, n>> : n \in ProbeNames}
    \cup {<<S_site, d, n>> : d \in ProbeDirs, n \in ProbeNames}
    \cup {<<S_other, n>> : n \in ProbeNames}

Idle ==
    /\ files = <<>> /\ mainpc = "probe" /\ cpc = "file" /\ cur = NewCur
    /\ base_runtime = NewRuntime /\ context = NewContext /\ route_mapping = <<>>
    /\ reqs = [r \in Slots |-> IdleReq]

InitRouteKey ==
    /\ Idle
    /\ probe \in [path : ProbeFilePaths, done : {FALSE}, out : {RouteKey(BasePath, <<>>)}]

ProbeRouteKey ==
    /\ mainpc = "probe" /\ ~probe.done
    /\ probe' = [probe EXCEPT !.done = TRUE, !.out = RouteKey(BasePath, probe.path)]
    /\ UNCHANGED <<files, mainpc, cpc, cur, base_runtime, context, route_mapping, reqs>>

SpecRouteKey == InitRouteKey /\ [][ProbeRouteKey]_vars

-----------------------------------------------------------------------------
(* The dispatcher's lookup on its own: every route map over a few keys *)

K_a == <<"a">>
K_a_index == Join(<<K_a, S_index>>, <<"/">>)

DispatchKeys ==
    {FormatAt(S_GET, K_a), FormatAt(S_GET, K_a_index), K_a, K_a_index,
     FormatAt(S_POST, K_a), S_index, FormatAt(S_GET, S_index), FormatAt(S_GET, <<>>)}

\* the last path names a method-qualified key: "/POST@a"
DispatchPaths ==
    {<<"/">>, <<"/", "a">>, <<"/", "a", "/">>, <<"/", "/", "a">>, <<"/", "b">>,
     <<"/">> \o FormatAt(S_POST, K_a)}

InitDispatch ==
    /\ Idle
    /\ probe \in [routes : SUBSET DispatchKeys, method : Methods, path : DispatchPaths,
                  done : {FALSE}, found : {FALSE}, out : {<<>>}]

ProbeDispatch ==
    /\ mainpc = "probe" /\ ~probe.done
    /\ LET options == Options(probe.method, probe.path)
           found == FindOption(options, probe.routes)
       IN  probe' = [probe EXCEPT !.done = TRUE, !.found = (found # 0),
                                  !.out = IF found = 0 THEN <<>> ELSE options[found]]
    /\ UNCHANGED <<files, mainpc, cpc, cur, base_runtime, context, route_mapping, reqs>>

SpecDispatch == InitDispatch /\ [][ProbeDispatch]_vars

-----------------------------------------------------------------------------
(* Claims *)

StripSlashes(path) == TrimEndIn(TrimStartIn(path, {"/"}), {"/"})

\* the ordered candidate list [METHOD@page, METHOD@pageIndex, page, pageIndex]
Candidates(method, path) ==
    LET page == StripSlashes(path)
        pageIndex == IF page = <<>> THEN S_index ELSE page \o <<"/">> \o S_index
    IN  <<method \o <<"@">> \o page, method \o <<"@">> \o pageIndex, page, pageIndex>>

FirstPresent(cands, keys, i) ==
    /\ cands[i] \in keys
    /\ \A j \in 1..(i - 1) : cands[j] \notin keys

\* C1: the dispatcher selects the first key of [METHOD@page, METHOD@pageIndex,
\* page, pageIndex] that is present in the route map, and none when none is
\* present; so METHOD@page wins over page when both are registered.
C1_FirstCandidateSelected ==
    probe.done =>
        LET cands == Candidates(probe.method, probe.path)
        IN  /\ \A i \in 1..4 :
                 FirstPresent(cands, probe.routes, i) => probe.found /\ probe.out = cands[i]
            /\ (\A i \in 1..4 : cands[i] \notin probe.routes) => ~probe.found

C1_Witness ==
    /\ probe.done
    /\ LET cands == Candidates(probe.method, probe.path)
       IN  /\ cands[1] \in probe.routes
           /\ cands[3] \in probe.routes
           /\ probe.out = cands[1]


DeserializerFor(file_type) == IF file_type = "HTML" THEN "Node" ELSE "RuleSet"

\* the request found a route, ran it to End, and the terminal value does not
\* deserialize as the route's type
DeserializeFailed(q) ==
    /\ q.pc = "done" /\ q.status # 404
    /\ q.last = "End"
    /\ ~DeserializeOk(q.runtime, DeserializerFor(route_mapping[q.key].file_type))

\* C2: when a route is found and executed to End but deserializing the
\* terminal value fails, the response is HTTP 500 with an empty body, never 200.
C2_DeserializeFailureIs500 ==
    \A r \in Slots : DeserializeFailed(reqs[r]) => reqs[r].status = 500 /\ reqs[r].body = <<>>

\* C3: the shared state (base interpreter, context, route map) is the same
\* after every step taken while serving as it was when the server started, and
\* a step of one request changes no other request's clone.
C3_SharedStateFrozen ==
    [][/\ mainpc = "serving" => UNCHANGED <<base_runtime, context, route_mapping>>
       /\ \A r1, r2 \in Slots :
            r1 # r2 /\ reqs'[r1] # reqs[r1] => reqs'[r2] = reqs[r2]]_vars

C3_Witness ==
    /\ mainpc = "serving"
    /\ \E r1, r2 \in Slots :
        /\ r1 # r2
        /\ reqs[r1].steps > 0 /\ reqs[r2].steps > 0
        /\ reqs[r1].runtime.registers # base_runtime.registers
        /\ reqs[r1].runtime.data # base_runtime.data
        /\ reqs[r1].runtime.cursor # base_runtime.cursor
        /\ reqs[r2].pc = "loop"
        /\ reqs[r2].runtime # reqs[r1].runtime

\* C4: a request is answered 404 exactly when none of its four candidate keys
\* is in the route map, and then no interpreter step was executed; every
\* response that is not 200 (404 or 500) has an empty body.
C4_NotFoundExactly ==
    \A r \in Slots :
        LET q == reqs[r]
            cands == Candidates(q.method, q.path)
        IN  q.pc = "done" =>
              /\ q.status \in {200, 404, 500}
              /\ q.status = 404 <=> \A i \in 1..4 : cands[i] \notin DOMAIN route_mapping
              /\ q.status = 404 => q.steps = 0 /\ q.last = "none"
              /\ q.status # 200 => q.body = <<>>

C4_Witness ==
    \E r1, r2 \in Slots :
        /\ reqs[r1].pc = "done" /\ reqs[r1].status = 404
        /\ reqs[r2].pc = "done" /\ reqs[r2].status = 500

C5_Stepping ==
    \A r \in Slots :
        LET q == reqs[r]
        IN  /\ q.last = "Err" => q.pc = "done" /\ q.status = 500 /\ q.body = <<>>
            /\ q.last = "End" => q.pc \in {"respond", "done"} /\ q.status \in {0, 200}
            /\ q.pc = "loop" => q.last \in {"none", "Running"} /\ q.runtime.state = "Running"
            /\ q.pc = "respond" => q.last = "End"
            /\ q.pc = "done" /\ q.status = 200 => q.last = "End"
            /\ q.pc = "done" /\ q.status = 500 =>
                 /\ q.body = <<>>
                 /\ q.runtime.state # "End"
                 /\ \/ q.last = "Err"
                    \/ /\ q.steps = 0
                       /\ ~CanSetInstructionCursor(base_runtime,
                                                   route_mapping[q.key].execution_start)

\* C5: a failure to seed the cursor, or the first execute step that returns an
\* error, ends the request with 500 and an empty body, with no further step and
\* nothing deserialized; otherwise stepping goes on while the state is Running
\* and stops at the first step whose state is End.
C5_ErrorEndsRequest ==
    /\ []C5_Stepping
    /\ [][\A r \in Slots : reqs[r].pc = "done" => reqs'[r] = reqs[r]]_vars

C5_Witness ==
    \E r1, r2 \in Slots :
        /\ reqs[r1].pc = "done" /\ reqs[r1].status = 500
        /\ reqs[r1].last = "Err" /\ reqs[r1].steps >= 2
        /\ reqs[r2].pc = "done" /\ reqs[r2].status = 200 /\ reqs[r2].steps >= 2


DropSuffix(s, suffix) == SubSeq(s, 1, Len(s) - Len(suffix))

\* strip the base path, remove one trailing ".garnish", then one trailing
\* ".html" (Html) or ".css" (Css); anything else is left as it is (Html)
RouteKeyReference(base_path, path) ==
    IF ~IsPrefixPath(base_path, path)
    THEN [ok |-> FALSE, route |-> <<>>, file_type |-> "HTML"]
    ELSE LET rel == Join(SubSeq(path, Len(base_path) + 1, Len(path)), <<"/">>)
             residual == IF EndsWith(rel, S_garnish) THEN DropSuffix(rel, S_garnish) ELSE rel
         IN  IF EndsWith(residual, S_html)
             THEN [ok |-> TRUE, route |-> DropSuffix(residual, S_html), file_type |-> "HTML"]
             ELSE IF EndsWith(residual, S_css)
             THEN [ok |-> TRUE, route |-> DropSuffix(residual, S_css), file_type |-> "CSS"]
             ELSE [ok |-> TRUE, route |-> residual, file_type |-> "HTML"]

\* C6: RouteKey(basePath, filePath) equals the reference that removes only the
\* one trailing ".garnish" and then only the one trailing ".html" or ".css",
\* for every path, also when these occur in a directory name or inside the
\* file name.
C6_RouteKeyIsReference ==
    probe.done => probe.out = RouteKeyReference(BasePath, probe.path)

\* C7: when basePath is not a prefix of one file's path, only that file is
\* skipped and compilation as a whole still succeeds: compilation never ends
\* in failure at a readable, well-formed file for the reason that it lies
\* outside basePath.
C7_OutsideFileIsSkipped ==
    ~(/\ mainpc = "failed" /\ cpc = "file" /\ cur.idx <= Len(files)
      /\ files[cur.idx].content.readable /\ files[cur.idx].content.lex
      /\ ~IsPrefixPath(BasePath, files[cur.idx].path))

JumpPoints(rt) == {rt.jump_table[i] : i \in DOMAIN rt.jump_table}

\* C8: after a successful compilation every route's executionStart, of a root
\* key or of a method-qualified key, is a program counter stored in the base
\* interpreter's jump table and lies inside its instruction stream.
C8_ExecutionStartIsJumpPoint ==
    mainpc = "serving" =>
        \A k \in DOMAIN route_mapping :
            /\ route_mapping[k].execution_start \in JumpPoints(base_runtime)
            /\ route_mapping[k].execution_start < Len(base_runtime.instructions)

C8_Witness ==
    /\ mainpc = "serving"
    /\ \E k \in DOMAIN route_mapping, m \in Methods :
        /\ FormatAt(m, k) \in DOMAIN route_mapping
        /\ route_mapping[FormatAt(m, k)].execution_start
              # context.expression_map[FormatAt(m, k)]
        /\ route_mapping[k].execution_start # context.expression_map[k]

\* C9: after a successful compilation every (name, idx) of the context's
\* expressionMap has jumpTable[idx] defined, also for an index decoded from an
\* @Def annotation.
C9_ExpressionMapIndicesValid ==
    mainpc = "serving" =>
        \A name \in DOMAIN context.expression_map :
            HasJumpPoint(base_runtime, context.expression_map[name])

\* C10: in the final route map, every method-qualified key METHOD@P has the
\* fileType of the root key P, for every sequence of compiled files.
C10_FileTypeUniform ==
    mainpc = "serving" =>
        \A p \in DOMAIN route_mapping, m \in Methods :
            FormatAt(m, p) \in DOMAIN route_mapping =>
                route_mapping[FormatAt(m, p)].file_type = route_mapping[p].file_type

-----------------------------------------------------------------------------
(* C11: what an annotation registers *)

\* the block the compiler is decoding, and what its evaluation yielded
DecodingMethod == mainpc = "compile" /\ cpc = "decode" /\ cur.kind = "method"

DecodingDef == mainpc = "compile" /\ cpc = "decode" /\ cur.kind = "def"

MethodKey(name, route) == name \o <<"@">> \o route

\* C11: an @Method annotation whose evaluation succeeds with (name, idx) on a
\* file with route R, idx having a jump-table entry, inserts
\* RouteMap[name@R] = RouteInfo(name@R, the file's type, jumpTable[idx]) and
\* expressionMap[name@R] = idx; an @Def annotation that succeeds with
\* (name, idx) inserts expressionMap[name] = idx only and leaves the route map
\* alone; no key ever leaves either map, so the keys are there when the
\* compilation has succeeded.
C11_AnnotationRegistration ==
    [][LET params == AnnotationParameters(base_runtime)
           key == MethodKey(params.name, cur.route)
       IN  /\ (DecodingMethod /\ params.ok /\ HasJumpPoint(base_runtime, params.start))
                => /\ key \in DOMAIN route_mapping'
                   /\ route_mapping'[key] =
                        [route |-> key, file_type |-> cur.file_type,
                         execution_start |-> base_runtime.jump_table[params.start + 1]]
                   /\ key \in DOMAIN context'.expression_map
                   /\ context'.expression_map[key] = params.start
                   /\ DOMAIN route_mapping' = DOMAIN route_mapping \cup {key}
                   /\ DOMAIN context'.expression_map =
                        DOMAIN context.expression_map \cup {key}
           /\ (DecodingDef /\ params.ok)
                => /\ route_mapping' = route_mapping
                   /\ params.name \in DOMAIN context'.expression_map
                   /\ context'.expression_map[params.name] = params.start
                   /\ DOMAIN context'.expression_map =
                        DOMAIN context.expression_map \cup {params.name}
           /\ DOMAIN route_mapping \subseteq DOMAIN route_mapping'
           /\ DOMAIN context.expression_map \subseteq DOMAIN context'.expression_map
      ]_vars

\* a finished compilation that registered POST@a from an @Method block and
\* greet from an @Def block
C11_Witness ==
    /\ mainpc = "serving"
    /\ \E i \in 1..Len(files) :
          /\ MethodPost \in {files[i].content.methods[k] : k \in DOMAIN files[i].content.methods}
          /\ DefGreet \in {files[i].content.defs[k] : k \in DOMAIN files[i].content.defs}
    /\ MethodKey(S_POST, K_a) \in DOMAIN route_mapping
    /\ MethodKey(S_POST, K_a) \in DOMAIN context.expression_map
    /\ S_greet \in DOMAIN context.expression_map
    /\ S_greet \notin DOMAIN route_mapping

-----------------------------------------------------------------------------
(* C12: the root of a file *)

FileRoute(i) == RouteKey(BasePath, files[i].path).route

CompilingRoot == mainpc = "compile" /\ cpc = "root"

\* the files whose route is `page` exist and all have a root that parses empty
OnlyEmptyRoots(page) ==
    /\ \E i \in 1..Len(files) : FileRoute(i) = page
    /\ \A i \in 1..Len(files) :
          FileRoute(i) = page => files[i].content.root.parse = "empty"

C12_RootRegistered ==
    mainpc = "serving" =>
        \A i \in 1..Len(files) :
            files[i].content.root.parse = "ok" =>
                /\ FileRoute(i) \in DOMAIN route_mapping
                /\ FileRoute(i) \in DOMAIN context.expression_map

C12_EmptyRootRequests ==
    mainpc = "serving" =>
        \A r \in Slots :
            LET q == reqs[r]
                page == StripSlashes(q.path)
                qualified == MethodKey(q.method, page)
                index == IF page = <<>> THEN S_index ELSE page \o <<"/">> \o S_index
            IN  (q.pc = "done" /\ OnlyEmptyRoots(page)) =>
                    /\ page \notin DOMAIN route_mapping
                    /\ qualified \in DOMAIN route_mapping
                         => q.key = qualified /\ q.status # 404
                    /\ (/\ qualified \notin DOMAIN route_mapping
                        /\ index \notin DOMAIN route_mapping
                        /\ MethodKey(q.method, index) \notin DOMAIN route_mapping)
                         => q.status = 404

\* C12: after a successful compilation the route of every file whose root
\* parses to a non-empty tree is a key of the route map and of the expression
\* map; the root step of a file whose root parses empty changes neither map
\* nor the build metadata, so what the file's annotations registered stays;
\* and when only such a file yields route R, a request whose method its
\* @Method registered selects METHOD@R while a request with another method
\* and no R/index route is answered 404.
C12_RootStep ==
    /\ [](C12_RootRegistered /\ C12_EmptyRootRequests)
    /\ [][(CompilingRoot /\ files[cur.idx].content.root.parse = "empty")
            => /\ route_mapping' = route_mapping
               /\ context' = context
               /\ mainpc' = "compile"]_vars

\* only a.html.garnish with an empty root and an @Method POST is served:
\* POST /a ran POST@a and GET /a got 404
C12_Witness ==
    /\ mainpc = "serving"
    /\ Len(files) = 1
    /\ files[1].content.root.parse = "empty"
    /\ DOMAIN route_mapping = {MethodKey(S_POST, K_a)}
    /\ \E r1, r2 \in Slots :
          /\ reqs[r1].pc = "done" /\ reqs[r1].method = S_POST
          /\ reqs[r1].path = <<"/", "a">> /\ reqs[r1].key = MethodKey(S_POST, K_a)
          /\ reqs[r1].status = 200
          /\ reqs[r2].pc = "done" /\ reqs[r2].method = S_GET
          /\ reqs[r2].path = <<"/", "a">> /\ reqs[r2].status = 404

-----------------------------------------------------------------------------
(* C13: compilation comes before serving *)

Handled(r) == reqs[r].pc # "idle"

CompilationComplete == cpc = "file" /\ cur.idx > Len(files) /\ cur.kind = "none"

C13_ServingAfterCompilation ==
    /\ (\E r \in Slots : Handled(r)) => mainpc = "serving"
    /\ mainpc = "serving" => CompilationComplete
    /\ mainpc = "failed" => \A r \in Slots : ~Handled(r)

\* C13: a request is handled only in the serving state, which is entered only
\* when every file has been compiled and create_runtime has returned Ok; the
\* files are compiled one after another in the order of the list; after a
\* fatal compile error the process never serves and handles no request, and
\* once serving the compiled triple is never touched again.
C13_CompileThenServe ==
    /\ []C13_ServingAfterCompilation
    /\ [][/\ cur'.idx \in {cur.idx, cur.idx + 1}
          /\ mainpc = "failed" => mainpc' = "failed"
          /\ mainpc = "serving" => mainpc' = "serving"
          /\ (mainpc = "compile" /\ mainpc' = "serving") => CompilationComplete
          /\ mainpc # "serving" => reqs' = reqs]_vars

\* two files were compiled, then a request was answered from the second
\* file's route
C13_Witness ==
    /\ mainpc = "serving"
    /\ Len(files) = 2
    /\ cur.idx = 3
    /\ \E r \in Slots :
          /\ reqs[r].pc = "done" /\ reqs[r].status = 200
          /\ reqs[r].key = FileRoute(2)

-----------------------------------------------------------------------------
(* C14: exact path and index fallback *)

ExactKeys(method, path) == {Candidates(method, path)[1], Candidates(method, path)[3]}

IndexKeys(method, path) == {Candidates(method, path)[2], Candidates(method, path)[4]}

\* C14 as stated: whenever an exact-path key (METHOD@page or page) is
\* registered the dispatcher selects an exact-path key and never an index key
\* (METHOD@page/index or page/index); an index key is selected only when no
\* exact-path key is registered.
C14_ExactBeforeIndex ==
    probe.done =>
        LET exact == ExactKeys(probe.method, probe.path)
            index == IndexKeys(probe.method, probe.path)
        IN  /\ exact \cap probe.routes # {}
                => probe.found /\ probe.out \in exact /\ probe.out \notin index
            /\ (probe.found /\ probe.out \in index) => exact \cap probe.routes = {}

\* C14, amended: the exact path comes before the index fallback among the
\* method-qualified keys and among the unqualified keys, not across them.
\* METHOD@page is selected whenever it is registered; METHOD@page/index is
\* selected exactly when it is registered and METHOD@page is not, whether or
\* not the unqualified page is registered; page is selected exactly when it
\* is registered and neither method-qualified key is; page/index is selected
\* exactly when it is registered and none of the other three is.
C14_ExactBeforeIndexPerQualifier ==
    probe.done =>
        LET c == Candidates(probe.method, probe.path)
            has(i) == c[i] \in probe.routes
            selected(i) == probe.found /\ probe.out = c[i]
        IN  /\ selected(1) <=> has(1)
            /\ selected(2) <=> (has(2) /\ ~has(1))
            /\ selected(3) <=> (has(3) /\ ~has(1) /\ ~has(2))
            /\ selected(4) <=> (has(4) /\ ~has(1) /\ ~has(2) /\ ~has(3))

\* GET /a with both GET@a/index and a registered: the index key is selected
C14_Witness ==
    /\ probe.done
    /\ probe.method = S_GET
    /\ probe.path = <<"/", "a">>
    /\ K_a \in probe.routes
    /\ FormatAt(S_GET, K_a_index) \in probe.routes
    /\ FormatAt(S_GET, K_a) \notin probe.routes
    /\ probe.out = MethodKey(S_GET, K_a \o <<"/">> \o S_index)

-----------------------------------------------------------------------------
(* C15: the successful response *)

\* C15: every response with status 200 carries Content-Type text/html
\* whatever the file type of the selected route, and its body is what the
\* deserializer of that file type (Node for HTML, RuleSet for CSS) makes of
\* the terminal current value of the request's clone of the runtime.
C15_SuccessResponse ==
    \A r \in Slots :
        LET q == reqs[r]
        IN  (q.pc = "done" /\ q.status = 200) =>
                /\ DOMAIN q.headers = {"Content-Type"}
                /\ q.headers["Content-Type"] = "text/html"
                /\ q.key \in DOMAIN route_mapping
                /\ q.last = "End"
                /\ LET T == DeserializerFor(route_mapping[q.key].file_type)
                       v == q.runtime.current
                   IN  q.body = IF v \in DOMAIN q.runtime.data /\ q.runtime.data[v].type = T
                                THEN q.runtime.data[v].str
                                ELSE <<>>

\* a CSS route answered with its rule set and an HTML route answered with its
\* node, both as text/html
C15_Witness ==
    \E r1, r2 \in Slots :
        /\ reqs[r1].pc = "done" /\ reqs[r1].status = 200
        /\ route_mapping[reqs[r1].key].file_type = "CSS"
        /\ reqs[r1].body = T_rule
        /\ reqs[r1].headers["Content-Type"] = "text/html"
        /\ reqs[r2].pc = "done" /\ reqs[r2].status = 200
        /\ route_mapping[reqs[r2].key].file_type = "HTML"
        /\ reqs[r2].body = T_posted
        /\ reqs[r2].headers["Content-Type"] = "text/html"

-----------------------------------------------------------------------------
(* C16: slashes around the request path *)

\* the page with slashes put around it
SlashVariants(page) ==
    {page, <<"/">> \o page, page \o <<"/">>, <<"/">> \o page \o <<"/">>,
     <<"/", "/">> \o page \o <<"/", "/">>}

Selection(method, path, keys) ==
    LET options == Options(method, path)
        found == FindOption(options, keys)
    IN  IF found = 0 THEN <<>> ELSE options[found]

\* C16: every path that differs from the request's path only in leading or
\* trailing slashes yields the same candidate list and the same selection as
\* the request's path; the path "/" (and the empty path) with only index
\* registered selects index, and "/a" with only a/index registered selects
\* a/index.
C16_SlashesIgnored ==
    probe.done =>
        LET page == StripSlashes(probe.path)
        IN  /\ \A v \in SlashVariants(page) :
                 /\ Options(probe.method, v) = Options(probe.method, probe.path)
                 /\ Selection(probe.method, v, probe.routes) = probe.out
            /\ (page = <<>> /\ probe.routes = {S_index})
                 => probe.found /\ probe.out = S_index
            /\ (page = K_a /\ probe.routes = {K_a \o <<"/">> \o S_index})
                 => probe.found /\ probe.out = K_a \o <<"/">> \o S_index

\* "/a/" with only a/index registered selected a/index
C16_Witness ==
    /\ probe.done
    /\ probe.path = <<"/", "a", "/">>
    /\ probe.routes = {K_a \o <<"/">> \o S_index}
    /\ probe.found
    /\ probe.out = K_a \o <<"/">> \o S_index

-----------------------------------------------------------------------------
(* C17: method-qualified routes and the request's method *)

\* the keys M@R that the @Method annotations of the served files registered
MethodRoutes(M) ==
    {MethodKey(M, FileRoute(i)) : i \in 1..Len(files)} \cap DOMAIN route_mapping

\* C17: a route M@P registered by an @Method annotation is selected only for
\* requests whose method is M: a request with another method never selects
\* it, whatever its path, a path such as /M@P included.
C17_MethodRouteOnlyForMethod ==
    mainpc = "serving" =>
        \A r \in Slots, M \in Methods :
            (reqs[r].pc # "idle" /\ reqs[r].method # M)
                => reqs[r].key \notin MethodRoutes(M)

-----------------------------------------------------------------------------
(* C18: an annotation that fails *)

\* the annotation block the compiler is at
AtMethodBlock == mainpc = "compile" /\ cpc = "methods" /\ cur.method_blocks # <<>>

AtDefBlock == mainpc = "compile" /\ cpc = "defs" /\ cur.def_blocks # <<>>

DecodedBlock ==
    IF cur.kind = "method" THEN Head(cur.method_blocks) ELSE Head(cur.def_blocks)

\* parse error, empty annotation, or the builder fails
FailsBeforeExecution(block) == block.parse # "ok" \/ ~block.build

\* the value the annotation evaluates to is no list, or a list without a name
\* in item 0 or without an expression in item 1
BadShape(block) ==
    \/ ~block.list
    \/ Len(block.items) < 2
    \/ block.items[1].type \notin {"Symbol", "CharList"}
    \/ block.items[2].type # "Expression"

NothingRegistered ==
    /\ route_mapping' = route_mapping
    /\ context' = context
    /\ cur'.builds = cur.builds
    /\ cur'.idx = cur.idx
    /\ mainpc' = "compile"

\* C18: when the evaluation of an @Method or @Def block fails (parse error,
\* empty annotation, build failure, bad shape of the value), the block adds
\* nothing to the route map, the expression map or the build metadata, and
\* the file does not fail: the compiler goes on with the next block of the
\* file.
C18_FailedAnnotationSkipped ==
    [][/\ (AtMethodBlock /\ FailsBeforeExecution(Head(cur.method_blocks)))
            => /\ NothingRegistered
               /\ cpc' = "methods"
               /\ cur'.method_blocks = Tail(cur.method_blocks)
       /\ (AtDefBlock /\ FailsBeforeExecution(Head(cur.def_blocks)))
            => /\ NothingRegistered
               /\ cpc' = "defs"
               /\ cur'.def_blocks = Tail(cur.def_blocks)
       /\ (DecodingMethod /\ BadShape(DecodedBlock))
            => /\ NothingRegistered
               /\ cpc' = "methods"
               /\ cur'.method_blocks = Tail(cur.method_blocks)
       /\ (DecodingDef /\ BadShape(DecodedBlock))
            => /\ NothingRegistered
               /\ cpc' = "defs"
               /\ cur'.def_blocks = Tail(cur.def_blocks)
      ]_vars

\* a compilation that finished although the first file's only @Def block had
\* a bad shape: both files' roots are registered and nothing else
C18_Witness ==
    /\ mainpc = "serving"
    /\ Len(files) = 2
    /\ files[1].content.defs = <<DefBadName>>
    /\ FileRoute(1) # FileRoute(2)
    /\ DOMAIN route_mapping = {FileRoute(1), FileRoute(2)}
    /\ DOMAIN context.expression_map = {FileRoute(1), FileRoute(2)}
    /\ Len(context.build_metadata) = 2

-----------------------------------------------------------------------------
(* C19: the shape of an annotation's value *)

\* a list of exactly two items, a name and an expression
ExactlyNameAndExpression(block) ==
    /\ block.list
    /\ Len(block.items) = 2
    /\ block.items[1].type \in {"Symbol", "CharList"}
    /\ block.items[2].type = "Expression"

\* C19: the evaluation of an annotation succeeds only if its value is a list
\* of exactly two items, item 0 a Symbol or CharList and item 1 an
\* Expression; for every other value (no list, a list of fewer or more than
\* two items, other item types) it fails and nothing is registered.
C19_ExactlyTwoItems ==
    [][((DecodingMethod \/ DecodingDef) /\ ~ExactlyNameAndExpression(DecodedBlock))
            => /\ route_mapping' = route_mapping
               /\ context' = context
               /\ cur'.builds = cur.builds
      ]_vars

-----------------------------------------------------------------------------
(* C20: the annotation evaluation loop *)

Executing == mainpc = "compile" /\ cpc = "exec"

\* the step at the cursor returns an error
StepFails(rt) ==
    \/ rt.cursor >= Len(rt.instructions)
    \/ rt.instructions[rt.cursor + 1].op = "Invalid"

\* the step at the cursor returns an error and leaves the cursor where it is
Sticky(rt) ==
    \/ rt.cursor >= Len(rt.instructions)
    \/ /\ rt.instructions[rt.cursor + 1].op = "Invalid"
       /\ rt.instructions[rt.cursor + 1].arg = 0

C20_LoopLeftAtEnd ==
    (mainpc = "compile" /\ cpc = "decode") => base_runtime.state = "End"

\* C20: the annotation loop is left only by a step that reports End; a step
\* that returns an error leaves the compiler in the loop, neither failing nor
\* skipping the block; no step of the loop resolves a symbol, the registers
\* and the data stay as they are; and when the step at the cursor fails and
\* does not move the cursor, the compiler never leaves the loop.
C20_AnnotationLoop ==
    /\ []C20_LoopLeftAtEnd
    /\ [][Executing =>
            /\ mainpc' = "compile"
            /\ cpc' \in {"exec", "decode"}
            /\ cpc' = "decode"
                 => ~StepFails(base_runtime) /\ base_runtime'.state = "End"
            /\ StepFails(base_runtime) => cpc' = "exec"
            /\ base_runtime'.registers = base_runtime.registers
            /\ base_runtime'.data = base_runtime.data
            /\ <<cur, context, route_mapping>>' = <<cur, context, route_mapping>>
            /\ Sticky(base_runtime) => Sticky(base_runtime')]_vars

\* the first file's annotation went through a failing step and ended, its
\* route GET@<route> was registered; the second file's annotation is at a
\* step that fails for ever
C20_Witness ==
    /\ Executing
    /\ Sticky(base_runtime)
    /\ cur.idx = 2
    /\ files[1].content.methods = <<MethodGetHiccup>>
    /\ MethodKey(S_GET, FileRoute(1)) \in DOMAIN route_mapping
    /\ Head(cur.method_blocks) = MethodStuck

-----------------------------------------------------------------------------
(* C21: one entry per key, the last one written *)

\* the step registers a method route, a def or a root, under `key`
WritesMethod ==
    /\ DecodingMethod
    /\ AnnotationParameters(base_runtime).ok
    /\ HasJumpPoint(base_runtime, AnnotationParameters(base_runtime).start)

WritesDef == DecodingDef /\ AnnotationParameters(base_runtime).ok

WritesRoot == CompilingRoot /\ route_mapping' # route_mapping

\* the last file with route `route` whose root is not empty
LastRootWriter(route) ==
    CHOOSE i \in 1..Len(files) :
        /\ FileRoute(i) = route /\ files[i].content.root.parse = "ok"
        /\ \A j \in (i + 1)..Len(files) :
              ~(FileRoute(j) = route /\ files[j].content.root.parse = "ok")

\* the execution start recorded in the build metadata of the root of file i
RootStartOf(i) ==
    LET j == CHOOSE j \in DOMAIN context.build_metadata :
                context.build_metadata[j].name = <<files[i].path>>
    IN  context.build_metadata[j].execution_start

C21_LastRootWins ==
    mainpc = "serving" =>
        \A i \in 1..Len(files) :
            files[i].content.root.parse = "ok" =>
                LET w == LastRootWriter(FileRoute(i))
                    info == route_mapping[FileRoute(i)]
                IN  /\ info.file_type = RouteKey(BasePath, files[w].path).file_type
                    /\ info.execution_start = RootStartOf(w)

\* C21: an insertion under a key that is already in the route map or in the
\* expression map does not fail the compilation; it replaces the entry of
\* that key by the one being written and leaves every other entry as it is,
\* so each map holds one entry per key, the one of the last insertion in
\* processing order; after the compilation the entry of a route that several
\* files produce is the one of the last of these files.
C21_LastWriterWins ==
    /\ []C21_LastRootWins
    /\ [][LET params == AnnotationParameters(base_runtime)
              old_routes == route_mapping
              old_exprs == context.expression_map
              new_routes == route_mapping'
              new_exprs == context'.expression_map
              Kept(key) ==
                  /\ \A k \in DOMAIN old_routes \ {key} :
                        k \in DOMAIN new_routes /\ new_routes[k] = old_routes[k]
                  /\ \A k \in DOMAIN old_exprs \ {key} :
                        k \in DOMAIN new_exprs /\ new_exprs[k] = old_exprs[k]
                  /\ mainpc' = "compile"
          IN  /\ WritesMethod =>
                    LET key == MethodKey(params.name, cur.route)
                    IN  /\ Kept(key)
                        /\ new_routes[key].file_type = cur.file_type
                        /\ new_routes[key].execution_start =
                              base_runtime.jump_table[params.start + 1]
                        /\ new_exprs[key] = params.start
              /\ WritesDef =>
                    /\ Kept(params.name)
                    /\ new_exprs[params.name] = params.start
                    /\ new_routes = old_routes
              /\ WritesRoot =>
                    LET index == Len(base_runtime.jump_table)
                    IN  /\ Kept(cur.route)
                        /\ new_routes[cur.route].file_type = cur.file_type
                        /\ new_routes[cur.route].execution_start =
                              base_runtime'.jump_table[index + 1]
                        /\ new_exprs[cur.route] = index
         ]_vars

\* a.html.garnish then a.css.garnish, both with a root: route a holds the CSS
\* file's entry, POST@a written by both files holds the second file's start
C21_Witness ==
    /\ mainpc = "serving"
    /\ Len(files) = 2
    /\ files[1].path = F_a_html /\ files[2].path = F_a_css
    /\ files[1].content.methods = <<MethodPost>>
    /\ files[2].content.methods = <<MethodPost>>
    /\ route_mapping[K_a].file_type = "CSS"
    /\ route_mapping[K_a].execution_start = RootStartOf(2)
    /\ route_mapping[MethodKey(S_POST, K_a)].file_type = "CSS"
    /\ route_mapping[MethodKey(S_POST, K_a)].execution_start > RootStartOf(1)

-----------------------------------------------------------------------------
(* C24: the route map and the expression map *)

\* C24: after a successful compilation every key k of the route map is a key
\* of the expression map, the jump-table entry of expression_map[k] is the
\* execution start of route_mapping[k], and route_mapping[k].route is k; also
\* when the name of an @Def, or the route of another file, is a key that is
\* already registered.
C24_MapsAgree ==
    mainpc = "serving" =>
        \A k \in DOMAIN route_mapping :
            /\ route_mapping[k].route = k
            /\ k \in DOMAIN context.expression_map
            /\ HasJumpPoint(base_runtime, context.expression_map[k])
            /\ GetJumpPoint(base_runtime, context.expression_map[k])
                  = route_mapping[k].execution_start

-----------------------------------------------------------------------------
(* C22: methods, then defs, then the root *)

\* the annotation is evaluated and decoded by the compiler
Accepted(block) ==
    /\ block.parse = "ok" /\ block.build /\ block.pre # "stuck"
    /\ ~BadShape(block)

BlockName(block) == block.items[1].name

\* the names of the metadata entries the blocks of one kind leave, in order
RECURSIVE AnnotationEntryNames(_, _)
AnnotationEntryNames(path, blocks) ==
    IF blocks = <<>> THEN <<>>
    ELSE (IF Accepted(Head(blocks)) THEN <<(<<path, BlockName(Head(blocks))>>)>> ELSE <<>>)
         \o AnnotationEntryNames(path, Tail(blocks))

FileEntryNames(f) ==
    AnnotationEntryNames(f.path, f.content.methods)
    \o AnnotationEntryNames(f.path, f.content.defs)
    \o (IF f.content.root.parse = "ok" THEN <<(<<f.path>>)>> ELSE <<>>)

RECURSIVE EntryNames(_)
EntryNames(fs) ==
    IF fs = <<>> THEN <<>> ELSE FileEntryNames(Head(fs)) \o EntryNames(Tail(fs))

MetadataNames == [j \in DOMAIN context.build_metadata |-> context.build_metadata[j].name]

IsPrefixOf(s, t) == Len(s) <= Len(t) /\ \A j \in DOMAIN s : s[j] = t[j]

C22_Phases ==
    mainpc = "compile" =>
        /\ cpc = "defs" => cur.method_blocks = <<>>
        /\ (cpc \in {"exec", "decode"} /\ cur.kind = "def") => cur.method_blocks = <<>>
        /\ cpc = "root" =>
              /\ cur.method_blocks = <<>> /\ cur.def_blocks = <<>>
              /\ LET f == files[cur.idx]
                 IN  /\ \A k \in DOMAIN f.content.methods :
                          Accepted(f.content.methods[k]) =>
                              MethodKey(BlockName(f.content.methods[k]), cur.route)
                                  \in DOMAIN context.expression_map
                     /\ \A k \in DOMAIN f.content.defs :
                          Accepted(f.content.defs[k]) =>
                              BlockName(f.content.defs[k]) \in DOMAIN context.expression_map

C22_MetadataLayout ==
    mainpc = "serving" => MetadataNames = EntryNames(files)

\* C22: in every file the @Method blocks are all evaluated before the @Def
\* blocks and both before the root is built, so when the root is reached
\* every annotation of the file that was evaluated successfully is in the
\* expression map; the build metadata only grows at its end, and after the
\* compilation it lists, file by file in the order of the list, the method
\* entries, then the def entries, then the root entry.
C22_CompileOrder ==
    /\ [](C22_Phases /\ C22_MetadataLayout)
    /\ [][/\ IsPrefixOf(context.build_metadata, context'.build_metadata)
          /\ (mainpc = "compile" /\ cpc = "root" /\ cpc' = "file" /\ mainpc' = "compile")
                => cur'.idx = cur.idx + 1
          /\ (mainpc = "compile" /\ cpc = "methods") => cpc' \in {"methods", "exec", "defs"}
          /\ (mainpc = "compile" /\ cpc = "defs") => cpc' \in {"defs", "exec", "root"}
         ]_vars

\* two methods, a def and a root of one file, then the root of a second file:
\* five entries in this order
C22_Witness ==
    /\ mainpc = "serving"
    /\ Len(files) = 2
    /\ files[1].content.methods = <<MethodPost, MethodGetHiccup>>
    /\ files[1].content.defs = <<DefGreet>>
    /\ MetadataNames =
          <<(<<files[1].path, S_POST>>), (<<files[1].path, S_GET>>),
            (<<files[1].path, S_greet>>), (<<files[1].path>>), (<<files[2].path>>)>>

-----------------------------------------------------------------------------
(* WebContext::resolve on its own *)

ResolveNames == {S_greet, <<"a">>}

\* symbol tables of runtimes: none, one or both of the names
ResolveSymbolTables ==
    {<<>>, <<(<<SymbolId(S_greet), S_greet>>)>>, <<(<<SymbolId(<<"a">>), <<"a">>>>)>>,
     <<(<<SymbolId(S_greet), S_greet>>), (<<SymbolId(<<"a">>), <<"a">>>>)>>}

\* expression maps over the names; an index may refer to no jump-table entry
ResolveMaps == UNION {[ns -> {0, 1, Dangling}] : ns \in SUBSET ResolveNames}

ResolveSymbols == {SymbolId(S_greet), SymbolId(<<"a">>), SymbolId(<<"n", "o", "n", "e">>)}

ResolveHeaps == {<<>>, <<Value("Node", T_hi, 0, <<>>)>>}

ResolveRegisters == {<<>>, <<1>>}

ResolveRuntimes ==
    {[NewRuntime EXCEPT !.symbols = st, !.data = d, !.registers = rg] :
        st \in ResolveSymbolTables, d \in ResolveHeaps, rg \in ResolveRegisters}

InitResolve ==
    /\ Idle
    /\ probe \in [ctx : {[NewContext EXCEPT !.expression_map = m] : m \in ResolveMaps},
                  symbol : ResolveSymbols, rt : ResolveRuntimes,
                  done : {FALSE}, resolved : {FALSE}, out : {NewRuntime}]

ProbeResolve ==
    /\ mainpc = "probe" /\ ~probe.done
    /\ LET result == resolve(probe.ctx, probe.symbol, probe.rt)
       IN  probe' = [probe EXCEPT !.done = TRUE, !.resolved = result.resolved,
                                  !.out = result.rt]
    /\ UNCHANGED <<files, mainpc, cpc, cur, base_runtime, context, route_mapping, reqs>>

SpecResolve == InitResolve /\ [][ProbeResolve]_vars

-----------------------------------------------------------------------------
(* C23: what resolve changes *)

\* the names the symbol table of the probed runtime gives the symbol
NamesOfSymbol ==
    {probe.rt.symbols[i][2] :
        i \in {j \in DOMAIN probe.rt.symbols : probe.rt.symbols[j][1] = probe.symbol}}

ResolveHits == \E n \in NamesOfSymbol : n \in DOMAIN probe.ctx.expression_map

-----------------------------------------------------------------------------
(* C25: requests do not depend on each other *)

SameRequest(r1, r2) ==
    /\ Handled(r1) /\ Handled(r2)
    /\ reqs[r1].method = reqs[r2].method
    /\ reqs[r1].path = reqs[r2].path

\* C25: two requests with the same method and path select the same key and
\* receive the same status, headers and body, whichever was handled first
\* and however their steps were interleaved; after the same number of steps
\* their clones of the runtime are the same, since each started from the
\* same frozen runtime and context.
C25_RequestsDeterministic ==
    \A r1, r2 \in Slots :
        SameRequest(r1, r2) =>
            /\ reqs[r1].key = reqs[r2].key
            /\ reqs[r1].context = reqs[r2].context
            /\ reqs[r1].steps = reqs[r2].steps
                 => /\ reqs[r1].runtime = reqs[r2].runtime
                    /\ reqs[r1].last = reqs[r2].last
            /\ (reqs[r1].pc = "done" /\ reqs[r2].pc = "done")
                 => /\ reqs[r1].status = reqs[r2].status
                    /\ reqs[r1].headers = reqs[r2].headers
                    /\ reqs[r1].body = reqs[r2].body
                    /\ reqs[r1].steps = reqs[r2].steps

\* two GET /a on a route that resolves a registered symbol: the first was
\* answered before the second took its second step
C25_Witness ==
    \E r1, r2 \in Slots :
        /\ r1 # r2
        /\ SameRequest(r1, r2)
        /\ reqs[r1].pc = "done" /\ reqs[r1].status = 200 /\ reqs[r1].body = T_hi
        /\ reqs[r2].pc = "loop" /\ reqs[r2].steps = 1
        /\ Len(reqs[r2].runtime.registers) = 1

====
